---------------------------- MODULE Spec2Model ----------------------------
(***************************************************************************)
(* One camera session of campy: AcquireOneCamera starts the producer       *)
(* thread GrabFrames (cameras/unicam.py, with the FLIR adapter             *)
(* cameras/flir/cam.py) and runs the consumer WriteFrames                  *)
(* (writer/campipe.py) in its own thread.  The two communicate through     *)
(* the deque writeQueue (frames and the string 'STOP') and the one-slot    *)
(* deque stopQueue.  The consumer runs in the main thread of the worker    *)
(* process, so a KeyboardInterrupt can be raised in it between any two     *)
(* statements.                                                             *)
(***************************************************************************)
EXTENDS Integers, Sequences, FiniteSets, TLC

\* ------------------------------------------------------------------ bounds
\* images the device delivers before the trigger stalls
MaxFrames == 3
\* KeyboardInterrupts delivered to the consumer thread
MaxInterrupts == 2
\* consecutive failures of the encoder to open a video file
MaxOpenFailures == 1
\* consecutive failures of the device to end acquisition and de-initialise
MaxCloseFailures == 1

\* largest width and height, and largest offset, given to the rounding
MaxSize == 17
MaxOffset == 5

\* cameras of a recording, and calls of CreateCamParams in one process
MaxCams == 2
MaxResolves == 3

\* configurations explored
SplitSecs == {-1, 0, 1, 2}
ChunkSecs == {1, 2}
FrameRates == {1}

VARIABLES
    params,       \* the global parameter dictionary of the process
    resolved,     \* the calls of CreateCamParams made so far, in order
    cam_params,   \* the session config dictionary (the fields used here)
    camera,       \* device: its nodes and what it was asked to set
    writeQueue,   \* deque(): frames and 'STOP'
    dispQueue,    \* deque([], 2): images sampled for the preview
    dispLog,      \* images the producer appended to dispQueue, in order
    window,       \* DisplayFrames: the image the window shows (0: none)
    stopQueue,    \* deque([], 1): out-of-band stop request
    ppc,          \* GrabFrames: position of the producer thread
    grabResult,   \* GrabFrames: the image of the current iteration
    nGrabs,       \* device: images delivered so far (complete or not)
    frameCount,   \* GrabFrames: local frameCount
    timeStamp,    \* GrabFrames: local timeStamp (<<>> while unbound)
    grabdata,     \* GrabFrames: the statistics dictionary
    released,     \* device: images released, in release order
    cameraOpen,   \* device: not yet closed by CloseCamera
    metadata,     \* what SaveMetadata did
    pLog,         \* producer events, in order
    pexc,         \* the exception that ended GrabFrames ("" if none)
    closeFailures, \* CloseCamera: failed attempts of the call in progress
    cpc,          \* WriteFrames: position of the consumer
    frame_count,  \* WriteFrames: local frame_count (<<>> while unbound)
    message,      \* WriteFrames: local message
    writer,       \* WriteFrames: index in sinks of the current writer
    sinks,        \* every writer opened, in the order of opening
    popLog,       \* entries the consumer popped, in order
    cexc,         \* the exception that left WriteFrames ("" if none)
    openFailures, \* OpenWriter: failed attempts of the call in progress
    enqLog,       \* frames the producer enqueued, in order
    reqLog,       \* what was pending when the stop request was recorded
    interrupts,   \* KeyboardInterrupts delivered so far
    session       \* AcquireOneCamera: "running", "returned" or "raised"

pvars == <<ppc, grabResult, nGrabs, frameCount, timeStamp, grabdata,
           released, cameraOpen, metadata, pLog, pexc, enqLog,
           closeFailures>>
cvars == <<cpc, frame_count, message, writer, sinks, popLog, cexc,
           openFailures>>
vars == <<params, resolved, cam_params, camera, dispQueue, dispLog, window,
         writeQueue, stopQueue, pvars, cvars, reqLog,
          interrupts, session>>

\* ------------------------------------------------------------ queue entries
Frame(id) == [str |-> FALSE, val |-> id]
STOP == [str |-> TRUE, val |-> 0]
NoMessage == [str |-> TRUE, val |-> -1]

\* append on a deque without maxlen
DequeAppend_Unbounded(q, x, maxlen) == Append(q, x)

\* deque.append on a deque with maxlen: the oldest entry falls off the left
DequeAppend(q, x, maxlen) ==
    IF Len(q) < maxlen THEN Append(q, x)
    ELSE Append(SubSeq(q, 2, Len(q)), x)

StopQueueMaxLen == 1
DispQueueMaxLen == 2

\* frames (ids) among the entries of a sequence of queue entries
RECURSIVE FramesOf(_)
FramesOf(q) ==
    IF q = <<>> THEN <<>>
    ELSE IF Head(q).str THEN FramesOf(Tail(q))
         ELSE <<Head(q).val>> \o FramesOf(Tail(q))

\* the device's clock: the timestamp chunk of image id
TimeStampOf(id) == 100 + id

\* --------------------------------------------------------------- GrabData
chunkLengthInFrames == cam_params.chunkLengthInSec * cam_params.frameRate

\* int(round(n / d)) for n >= 0 and d > 0: a tie goes to the even neighbour
RoundHalfEven(n, d) ==
    LET q == n \div d
        r == n % d
    IN  IF 2 * r < d THEN q
        ELSE IF 2 * r > d THEN q + 1
        ELSE IF q % 2 = 0 THEN q ELSE q + 1

\* grabdata["frameRatio"]: <<>> stands for float('inf')
frameRatio ==
    IF cam_params.displayFrameRate <= 0 THEN <<>>
    ELSE IF cam_params.displayFrameRate <= cam_params.frameRate
      THEN <<RoundHalfEven(cam_params.frameRate, cam_params.displayFrameRate)>>
    ELSE <<cam_params.frameRate>>

\* GrabFrames: local frameNumber, the last frame ID read from the chunk data
frameNumber ==
    IF grabdata.frameNumber = <<>> THEN 0
    ELSE grabdata.frameNumber[Len(grabdata.frameNumber)]

\* the try block of the preview for the frame number fn; display "shown":
\* cam.DisplayImage converts the image, downsamples it and appends the
\* sample; "failed": it raises before the append.  The test of the frame
\* ratio raises ZeroDivisionError when the ratio is 0; every exception is
\* caught and printed
DisplaySampled(q, fn, image, display) ==
    LET sampled == /\ cam_params.displayVideos
                   /\ IF frameRatio = <<>> THEN fn = 0
                      ELSE /\ frameRatio[1] # 0
                           /\ fn % frameRatio[1] = 0
    IN  IF sampled /\ display = "shown"
          THEN DequeAppend(q, image, DispQueueMaxLen)
        ELSE q

\* ------------------------------------------------------------- the config
\* the keys of cam_params the session reads; a key the dictionary does not
\* hold yet (LoadSettings adds it) is <<>>
DefaultParams ==
    [cameraName |-> "cam0",
     record_timestamp |-> "2020-01-01-00-00",
     videoFilename |-> "0.mp4",
     frameRate |-> 1,
     videoSplitLengthInSec |-> 1,
     chunkLengthInSec |-> 1,
     frameWidth |-> 16,
     frameHeight |-> 16,
     offsetX |-> 0,
     offsetY |-> 0,
     triggerType |-> "hardware",
     cameraTrigger |-> "Line3",
     disableGamma |-> TRUE,
     gpuID |-> -1,
     gpuMake |-> "nvidia",
     codec |-> "h264",
     pixelFormatOutput |-> "rgb0",
     quality |-> "21",
     displayVideos |-> FALSE,
     displayFrameRate |-> 10,
     acquisitionConfig |-> <<>>,
     trigConfig |-> <<>>,
     settingsConfig |-> <<>>,
     offset_x |-> <<>>,
     offset_y |-> <<>>]

\* the nodes of the device the configuration writes
Nodes == {"AcquisitionMode", "TriggerMode", "TriggerSource",
          "Width", "OffsetX", "Height", "OffsetY"}

\* the camera after camera.Init(): `writable` are the nodes that are
\* available and writable; a node nobody called SetValue on is <<>>
DeviceWith(writable) ==
    [writable |-> writable,
     TriggerMode |-> <<>>,
     TriggerSource |-> <<>>,
     Width |-> <<>>,
     OffsetX |-> <<>>,
     Height |-> <<>>,
     OffsetY |-> <<>>]

\* CreateCamParams has returned: cam_params is the global dictionary itself
SessionConfigResolved ==
    /\ params = cam_params
    /\ resolved = <<>>

\* ------------------------------------------------------------------- Init
\* the state of everything but the config and the device when
\* AcquireOneCamera has started both threads
ThreadsStarted ==
    /\ writeQueue = <<>>
    /\ dispQueue = <<>>
    /\ dispLog = <<>>
    /\ window = 0
    /\ stopQueue = <<>>
    /\ ppc = "open"
    /\ grabResult = 0
    /\ nGrabs = 0
    /\ frameCount = 0
    /\ timeStamp = <<>>
    /\ grabdata = [timeStamp |-> <<>>, frameNumber |-> <<>>, cameraTime |-> <<>>]
    /\ released = <<>>
    /\ cameraOpen = TRUE
    /\ metadata = [calls |-> 0, frames |-> <<>>, noFrames |-> FALSE,
                   totalFrames |-> <<>>, totalTime |-> <<>>,
                   summary |-> FALSE, table |-> <<>>]
    /\ pLog = <<>>
    /\ pexc = ""
    /\ closeFailures = 0
    /\ cpc = "init"
    /\ frame_count = <<>>
    /\ message = NoMessage
    /\ writer = 0
    /\ sinks = <<>>
    /\ popLog = <<>>
    /\ cexc = ""
    /\ openFailures = 0
    /\ enqLog = <<>>
    /\ reqLog = <<>>
    /\ interrupts = 0
    /\ session = "running"

Init ==
    /\ \E s \in SplitSecs, c \in ChunkSecs, f \in FrameRates :
          cam_params = [DefaultParams EXCEPT !.videoSplitLengthInSec = s,
                                             !.chunkLengthInSec = c,
                                             !.frameRate = f]
    /\ camera = DeviceWith(Nodes)
    /\ SessionConfigResolved
    /\ ThreadsStarted


\* ---------------------------------------------------- producer: GrabFrames
\* the handler of a failed grab and the stop branch share these three lines:
\* writeQueue.append('STOP'); grabbing = False; then CloseCamera
PushStop(why) ==
    /\ writeQueue' = Append(writeQueue, STOP)
    /\ pLog' = pLog \o <<why, "stop">>
    /\ ppc' = "close"

\* the loops `while x % 16 != 0: x += 1` and `while x % 4 != 0: x += 1`
RECURSIVE RoundUp(_, _)
RoundUp(x, m) == IF x % m # 0 THEN RoundUp(x + 1, m) ELSE x

\* ConfigureTrigger's return value: False for a trigger type that is neither
\* 'software' nor 'hardware' and for a node whose access mode is not RW
ConfigureTrigger(cp, cam) ==
    /\ cp.triggerType \in {"software", "hardware"}
    /\ "TriggerMode" \in cam.writable
    /\ "TriggerSource" \in cam.writable

\* the device after ConfigureTrigger: trigger mode off, the source selected,
\* trigger mode on again; every `return False` leaves the rest undone
TriggerConfigured(cp, cam) ==
    IF \/ cp.triggerType \notin {"software", "hardware"}
       \/ "TriggerMode" \notin cam.writable
      THEN cam
    ELSE IF "TriggerSource" \notin cam.writable
      THEN [cam EXCEPT !.TriggerMode = <<"Off">>]
    ELSE [cam EXCEPT !.TriggerMode = <<"On">>,
                     !.TriggerSource =
                         <<IF cp.triggerType = "software" THEN "Software"
                           ELSE cp.cameraTrigger>>]

\* ConfigureCustomImageSettings, its first lines: the sizes rounded up to a
\* multiple of 16 are written back into cam_params
SizesRounded(cp) ==
    [cp EXCEPT !.frameWidth = RoundUp(@, 16),
               !.frameHeight = RoundUp(@, 16)]

\* ConfigureCustomImageSettings, cam_params when it returns: an offset that
\* had to be rounded is stored under the keys offset_x and offset_y
ImageSettingsParams(cp, cam) ==
    [SizesRounded(cp) EXCEPT
        !.offset_x = IF "Width" \in cam.writable /\ cp.offsetX % 4 # 0
                       THEN <<RoundUp(cp.offsetX, 4)>> ELSE @,
        !.offset_y = IF "Height" \in cam.writable /\ cp.offsetY % 4 # 0
                       THEN <<RoundUp(cp.offsetY, 4)>> ELSE @]

\* the device set to the sizes and offsets as they were configured
ImageSettingsCamera_Unrounded(cp, cam) ==
    [cam EXCEPT
        !.Width = IF "Width" \in cam.writable
                    THEN <<cp.frameWidth>> ELSE @,
        !.OffsetX = IF {"Width", "OffsetX"} \subseteq cam.writable
                      THEN <<cp.offsetX>> ELSE @,
        !.Height = IF "Height" \in cam.writable
                     THEN <<cp.frameHeight>> ELSE @,
        !.OffsetY = IF {"Height", "OffsetY"} \subseteq cam.writable
                      THEN <<cp.offsetY>> ELSE @]

\* ConfigureCustomImageSettings, the SetValue calls: a size is set when its
\* node is writable, an offset when the size's node and its own are
ImageSettingsCamera(cp, cam) ==
    [cam EXCEPT
        !.Width = IF "Width" \in cam.writable
                    THEN <<RoundUp(cp.frameWidth, 16)>> ELSE @,
        !.OffsetX = IF {"Width", "OffsetX"} \subseteq cam.writable
                      THEN <<RoundUp(cp.offsetX, 4)>> ELSE @,
        !.Height = IF "Height" \in cam.writable
                     THEN <<RoundUp(cp.frameHeight, 16)>> ELSE @,
        !.OffsetY = IF {"Height", "OffsetY"} \subseteq cam.writable
                      THEN <<RoundUp(cp.offsetY, 4)>> ELSE @]

\* what the device can answer to LoadSettings: "" when every step succeeds,
\* "settings" when a node of the image settings raises SpinnakerException,
\* the others when that step returns False
ConfigFailures == {"settings", "exposure", "gain", "buffer", "chunk", "gamma"}

\* LoadSettings: cam_params and the device when it ends, and the exception
\* it ends with.  The return values of ConfigureAcquisitionMode and
\* ConfigureTrigger are stored and not tested; ConfigureAcquisitionMode's
\* message for a node that is not writable formats the unbound name i; a
\* SpinnakerException in ConfigureCustomImageSettings makes it return False,
\* which the assignment to three names cannot unpack; exposure, gain,
\* buffer, chunk data and gamma raise Exception when they return False
LoadSettings(cp, cam, failure) ==
    LET cp1 == [cp EXCEPT !.acquisitionConfig = <<TRUE>>,
                          !.trigConfig = <<ConfigureTrigger(cp, cam)>>]
        cam1 == TriggerConfigured(cp, cam)
    IN  IF "AcquisitionMode" \notin cam.writable
          THEN [cam_params |-> cp, camera |-> cam, exc |-> "NameError"]
        ELSE IF failure = "settings"
          THEN [cam_params |-> SizesRounded(cp1), camera |-> cam1,
                exc |-> "TypeError"]
        ELSE [cam_params |-> [ImageSettingsParams(cp1, cam1)
                                 EXCEPT !.settingsConfig = <<TRUE>>],
              camera |-> ImageSettingsCamera(cp1, cam1),
              exc |-> IF failure = "" THEN "" ELSE "Exception"]

\* GrabFrames going on to StartGrabbing whatever LoadSettings ended with
OpenCamera_Unchecked(failure) ==
    /\ ppc = "open"
    /\ failure = "gamma" => cam_params.disableGamma
    /\ LET r == LoadSettings(cam_params, camera, failure)
       IN  /\ cam_params' = r.cam_params
           /\ camera' = r.camera
           /\ params' = r.cam_params
           /\ pexc' = ""
           /\ ppc' = "start"
           /\ pLog' = IF r.exc = "" THEN pLog ELSE Append(pLog, "noconfig")
    /\ UNCHANGED <<writeQueue, stopQueue, grabResult, nGrabs,
                   frameCount, timeStamp, grabdata, released, cameraOpen,
                   metadata, enqLog, cvars, reqLog, interrupts, session,
                   closeFailures, resolved, dispQueue, dispLog, window>>

\* cam.OpenCamera -> LoadSettings, which works on the dictionary the consumer
\* reads too; an exception ends the thread before anything is queued
OpenCamera(failure) ==
    /\ ppc = "open"
    /\ failure = "gamma" => cam_params.disableGamma
    /\ LET r == LoadSettings(cam_params, camera, failure)
       IN  /\ cam_params' = r.cam_params
           /\ camera' = r.camera
           /\ params' = r.cam_params
           /\ pexc' = r.exc
           /\ ppc' = IF r.exc = "" THEN "start" ELSE "crashed"
           /\ pLog' = IF r.exc = "" THEN pLog ELSE Append(pLog, "noconfig")
    /\ UNCHANGED <<writeQueue, stopQueue, grabResult, nGrabs,
                   frameCount, timeStamp, grabdata, released, cameraOpen,
                   metadata, enqLog, cvars, reqLog, interrupts, session,
                   closeFailures, resolved, dispQueue, dispLog, window>>

\* the loop entered whatever StartGrabbing returned
StartGrabbing_Unchecked(ok) ==
    /\ ppc = "start"
    /\ ppc' = "loop"
    /\ pLog' = IF ok THEN pLog ELSE Append(pLog, "nostart")
    /\ UNCHANGED <<cam_params, camera, params, resolved, dispQueue, dispLog, window, writeQueue, stopQueue, grabResult, nGrabs,
                   frameCount, timeStamp, grabdata, released, cameraOpen,
                   metadata, enqLog, cvars, reqLog, interrupts, session,
                   pexc,
                   closeFailures>>

\* grabbing = cam.StartGrabbing(camera): False when BeginAcquisition raises
\* (the error is printed); `while grabbing` is skipped on False
StartGrabbing(ok) ==
    /\ ppc = "start"
    /\ ppc' = IF ok THEN "loop" ELSE "returned"
    /\ pLog' = IF ok THEN pLog ELSE Append(pLog, "nostart")
    /\ UNCHANGED <<cam_params, camera, params, resolved, dispQueue, dispLog, window, writeQueue, stopQueue, grabResult, nGrabs,
                   frameCount, timeStamp, grabdata, released, cameraOpen,
                   metadata, enqLog, cvars, reqLog, interrupts, session,
                   pexc,
                   closeFailures>>

\* `if stopQueue:` at the top of the loop
StopRequested ==
    /\ ppc = "loop"
    /\ stopQueue # <<>>
    /\ PushStop("request")
    /\ UNCHANGED <<cam_params, camera, params, resolved, dispQueue, dispLog, window, stopQueue, grabResult, nGrabs, frameCount,
                   timeStamp, grabdata, released, cameraOpen, metadata,
                   enqLog, cvars, reqLog, interrupts, session,
                   pexc,
                   closeFailures>>

\* cam.GrabFrame returns a complete image
GrabFrame ==
    /\ ppc = "loop"
    /\ stopQueue = <<>>
    /\ nGrabs < MaxFrames
    /\ nGrabs' = nGrabs + 1
    /\ grabResult' = nGrabs + 1
    /\ pLog' = Append(pLog, "grab")
    /\ ppc' = "extract"
    /\ UNCHANGED <<cam_params, camera, params, resolved, dispQueue, dispLog, window, writeQueue, stopQueue, frameCount, timeStamp,
                   grabdata, released, cameraOpen, metadata, enqLog, cvars,
                   reqLog, interrupts, session,
                   pexc,
                   closeFailures>>

\* a producer that only logs a grab timeout and goes on to the next iteration
GrabTimeout_LogAndContinue ==
    /\ ppc = "loop"
    /\ stopQueue = <<>>
    /\ nGrabs < MaxFrames
    /\ nGrabs' = nGrabs + 1
    /\ pLog' = Append(pLog, "timeout")
    /\ UNCHANGED <<cam_params, camera, params, resolved, dispQueue, dispLog, window, writeQueue, stopQueue, ppc, grabResult,
                   frameCount, timeStamp, grabdata, released, cameraOpen,
                   metadata, enqLog, cvars, reqLog, interrupts, session,
                   pexc,
                   closeFailures>>

\* camera.GetNextImage raises after the grab timeout
GrabTimeout ==
    /\ ppc = "loop"
    /\ stopQueue = <<>>
    /\ PushStop("timeout")
    /\ UNCHANGED <<cam_params, camera, params, resolved, dispQueue, dispLog, window, stopQueue, grabResult, nGrabs, frameCount,
                   timeStamp, grabdata, released, cameraOpen, metadata,
                   enqLog, cvars, reqLog, interrupts, session,
                   pexc,
                   closeFailures>>

\* the image is incomplete: cam.GrabFrame raises ImageNotCompleteException,
\* which the `except Exception` around the grab handles like a timeout
GrabIncomplete ==
    /\ ppc = "loop"
    /\ stopQueue = <<>>
    /\ nGrabs < MaxFrames
    /\ nGrabs' = nGrabs + 1
    /\ PushStop("incomplete")
    /\ UNCHANGED <<cam_params, camera, params, resolved, dispQueue, dispLog, window, stopQueue, grabResult, frameCount, timeStamp,
                   grabdata, released, cameraOpen, metadata, enqLog, cvars,
                   reqLog, interrupts, session,
                   pexc,
                   closeFailures>>

\* the try block that enqueues the image and records its chunk data;
\* outcome "ok": every call succeeds; "img": GetImageArray raises;
\* "chunk": reading the chunk data raises after the image was enqueued
ExtractOutcomes == {"ok", "img", "chunk"}

\* what cam.DisplayImage does when the preview samples the frame
DisplayOutcomes == {"shown", "failed"}

\* the throughput report: frameCount % chunkLengthInFrames == 0 selects the
\* iterations that report; the report reads timeStamp and divides by the
\* elapsed time, and nothing around it catches an exception
ReportException(count, ts, stats) ==
    IF chunkLengthInFrames = 0 THEN "ZeroDivisionError"
    ELSE IF count % chunkLengthInFrames # 0 THEN ""
    ELSE IF ts = <<>> THEN "UnboundLocalError"
    ELSE IF stats.timeStamp = <<>> THEN "IndexError"
    ELSE IF ts[1] - stats.timeStamp[1] = 0 THEN "ZeroDivisionError"
    ELSE ""

\* frameCount incremented whether or not the chunk data could be read
ProcessFrame_CountsEveryImage(outcome, display) ==
    /\ ppc = "extract"
    /\ IF outcome = "img"
         THEN UNCHANGED <<writeQueue, enqLog>>
         ELSE /\ writeQueue' = Append(writeQueue, Frame(grabResult))
              /\ enqLog' = Append(enqLog, grabResult)
    /\ IF outcome = "ok"
         THEN /\ timeStamp' = <<TimeStampOf(grabResult)>>
              /\ grabdata' = [grabdata EXCEPT
                     !.frameNumber = Append(@, grabResult),
                     !.timeStamp = Append(@, TimeStampOf(grabResult))]
              /\ frameCount' = frameCount + 1
         ELSE /\ frameCount' = frameCount + 1
              /\ UNCHANGED <<timeStamp, grabdata>>
    /\ dispQueue' = DisplaySampled(dispQueue,
                                   IF outcome = "ok" THEN grabResult
                                   ELSE frameNumber,
                                   grabResult, display)
    /\ dispLog' = IF dispQueue' = dispQueue THEN dispLog
                  ELSE Append(dispLog, grabResult)
    /\ pexc' = ReportException(frameCount', timeStamp', grabdata')
    /\ IF pexc' # ""
         THEN /\ ppc' = "crashed"
              /\ UNCHANGED released
         ELSE /\ released' = Append(released, grabResult)
              /\ ppc' = "loop"
    /\ UNCHANGED <<cam_params, camera, params, resolved, window, stopQueue, grabResult, nGrabs, cameraOpen,
                   metadata, pLog, cvars, reqLog, interrupts, session,
                   closeFailures>>

\* the rest of an iteration once the grab returned an image: the try block
\* around the enqueue, the try block of the preview, the throughput report
\* and cam.ReleaseFrame
ProcessFrame(outcome, display) ==
    /\ ppc = "extract"
    /\ IF outcome = "img"
         THEN UNCHANGED <<writeQueue, enqLog>>
         ELSE /\ writeQueue' = Append(writeQueue, Frame(grabResult))
              /\ enqLog' = Append(enqLog, grabResult)
    /\ IF outcome = "ok"
         THEN /\ timeStamp' = <<TimeStampOf(grabResult)>>
              /\ grabdata' = [grabdata EXCEPT
                     !.frameNumber = Append(@, grabResult),
                     !.timeStamp = Append(@, TimeStampOf(grabResult))]
              /\ frameCount' = frameCount + 1
         ELSE UNCHANGED <<timeStamp, grabdata, frameCount>>
    /\ dispQueue' = DisplaySampled(dispQueue,
                                   IF outcome = "ok" THEN grabResult
                                   ELSE frameNumber,
                                   grabResult, display)
    /\ dispLog' = IF dispQueue' = dispQueue THEN dispLog
                  ELSE Append(dispLog, grabResult)
    /\ pexc' = ReportException(frameCount', timeStamp', grabdata')
    /\ IF pexc' # ""
         THEN /\ ppc' = "crashed"
              /\ UNCHANGED released
         ELSE /\ released' = Append(released, grabResult)
              /\ ppc' = "loop"
    /\ UNCHANGED <<cam_params, camera, params, resolved, window, stopQueue, grabResult, nGrabs, cameraOpen,
                   metadata, pLog, cvars, reqLog, interrupts, session,
                   closeFailures>>

\* GrabFrames going on to SaveMetadata with the device left as it is
CloseCamera_Skipped ==
    /\ ppc = "close"
    /\ ppc' = "meta"
    /\ closeFailures' = 0
    /\ UNCHANGED <<cam_params, camera, params, resolved, dispQueue, dispLog, window, writeQueue, stopQueue, grabResult, nGrabs,
                   frameCount, timeStamp, grabdata, released, metadata,
                   enqLog, cvars, reqLog, interrupts, session,
                   pexc, cameraOpen, pLog>>

\* cam.CloseCamera after 'STOP' was pushed: EndAcquisition, DeInit and the
\* break out of its `while True`
CloseCamera ==
    /\ ppc = "close"
    /\ cameraOpen' = FALSE
    /\ pLog' = Append(pLog, "close")
    /\ ppc' = "meta"
    /\ closeFailures' = 0
    /\ UNCHANGED <<cam_params, camera, params, resolved, dispQueue, dispLog, window, writeQueue, stopQueue, grabResult, nGrabs,
                   frameCount, timeStamp, grabdata, released, metadata,
                   enqLog, cvars, reqLog, interrupts, session,
                   pexc>>

\* cam.CloseCamera: EndAcquisition or DeInit raises SpinnakerException; the
\* handler prints it and, having no break, leaves the `while True` to make
\* the next attempt
CloseCameraFails ==
    /\ ppc = "close"
    /\ closeFailures < MaxCloseFailures
    /\ closeFailures' = closeFailures + 1
    /\ UNCHANGED <<cam_params, camera, params, resolved, dispQueue, dispLog, window, writeQueue, stopQueue, ppc, grabResult,
                   nGrabs, frameCount, timeStamp, grabdata, released,
                   cameraOpen, metadata, pLog, pexc, enqLog, cvars, reqLog,
                   interrupts, session>>

\* zeroed timestamps: [i - timeFirstGrab for i in grabdata["timeStamp"]]
ZeroTimeStamps(ts) == [i \in 1..Len(ts) |-> ts[i] - ts[1]]

\* SaveRecordingMetadata raises before it opens a file: it divides the frame
\* count by the last zeroed timestamp and then reads folder_name, a name that
\* is bound only inside SaveMetadata
SaveRecordingMetadata(stats) ==
    IF stats.timeStamp[Len(stats.timeStamp)] = 0 THEN "ZeroDivisionError"
    ELSE "NameError"

\* SaveFrameTimestamps: the rows of frametimes.csv, one per frame, with the
\* columns frameNumber, cameraTime, timeStamp
SaveFrameTimestamps(stats) ==
    [i \in 1..Len(stats.frameNumber) |->
        <<stats.frameNumber[i], stats.cameraTime[i], stats.timeStamp[i]>>]

\* cam_params['totalFrames'] and cam_params['totalTime'] as
\* SaveRecordingMetadata leaves them: assigned after the division succeeded,
\* unassigned when it raised
TotalsRecorded(stats) ==
    IF SaveRecordingMetadata(stats) = "ZeroDivisionError"
      THEN [frames |-> <<>>, time |-> <<>>]
      ELSE [frames |-> <<Len(stats.frameNumber)>>,
            time |-> <<stats.timeStamp[Len(stats.timeStamp)]>>]

\* a SaveMetadata without the `if not grabdata["timeStamp"]` test: with no
\* timestamp, grabdata["timeStamp"][0] raises
SaveMetadata_NoEmptyTest ==
    /\ ppc = "meta"
    /\ pLog' = Append(pLog, "meta")
    /\ IF grabdata.timeStamp = <<>>
         THEN /\ UNCHANGED grabdata
              /\ pexc' = "IndexError"
              /\ metadata' = [metadata EXCEPT !.calls = @ + 1,
                                              !.frames = grabdata.frameNumber]
         ELSE /\ grabdata' = [grabdata EXCEPT
                     !.cameraTime = grabdata.timeStamp,
                     !.timeStamp = ZeroTimeStamps(grabdata.timeStamp)]
              /\ pexc' = SaveRecordingMetadata(grabdata')
              /\ metadata' = [metadata EXCEPT
                     !.calls = @ + 1,
                     !.frames = grabdata.frameNumber,
                     !.totalFrames = TotalsRecorded(grabdata').frames,
                     !.totalTime = TotalsRecorded(grabdata').time]
    /\ ppc' = "crashed"
    /\ UNCHANGED <<cam_params, camera, params, resolved, dispQueue, dispLog, window, writeQueue, stopQueue, grabResult, nGrabs,
                   frameCount, timeStamp, released, cameraOpen, enqLog,
                   cvars, reqLog, interrupts, session,
                   closeFailures>>

\* a SaveMetadata that writes the summary also when there is no timestamp
SaveMetadata_SummaryWithoutFrames ==
    /\ ppc = "meta"
    /\ pLog' = Append(pLog, "meta")
    /\ IF grabdata.timeStamp = <<>>
         THEN /\ UNCHANGED <<grabdata, pexc>>
              /\ metadata' = [metadata EXCEPT !.calls = @ + 1,
                                              !.frames = grabdata.frameNumber,
                                              !.noFrames = TRUE,
                                              !.summary = TRUE]
              /\ ppc' = "returned"
         ELSE /\ grabdata' = [grabdata EXCEPT
                     !.cameraTime = grabdata.timeStamp,
                     !.timeStamp = ZeroTimeStamps(grabdata.timeStamp)]
              /\ pexc' = SaveRecordingMetadata(grabdata')
              /\ metadata' = [metadata EXCEPT
                     !.calls = @ + 1,
                     !.frames = grabdata.frameNumber,
                     !.totalFrames = TotalsRecorded(grabdata').frames,
                     !.totalTime = TotalsRecorded(grabdata').time]
              /\ ppc' = "crashed"
    /\ UNCHANGED <<cam_params, camera, params, resolved, dispQueue, dispLog, window, writeQueue, stopQueue, grabResult, nGrabs,
                   frameCount, timeStamp, released, cameraOpen, enqLog,
                   cvars, reqLog, interrupts, session,
                   closeFailures>>

\* SaveMetadata: without timestamps it reports and returns; with timestamps
\* it zeroes them and calls SaveRecordingMetadata
SaveMetadata ==
    /\ ppc = "meta"
    /\ pLog' = Append(pLog, "meta")
    /\ IF grabdata.timeStamp = <<>>
         THEN /\ metadata' = [metadata EXCEPT !.calls = @ + 1,
                                              !.frames = grabdata.frameNumber,
                                              !.noFrames = TRUE]
              /\ UNCHANGED grabdata
              /\ ppc' = "returned"
              /\ UNCHANGED pexc
         ELSE /\ grabdata' = [grabdata EXCEPT
                     !.cameraTime = grabdata.timeStamp,
                     !.timeStamp = ZeroTimeStamps(grabdata.timeStamp)]
              /\ pexc' = SaveRecordingMetadata(grabdata')
              /\ metadata' = [metadata EXCEPT
                     !.calls = @ + 1,
                     !.frames = grabdata.frameNumber,
                     !.totalFrames = TotalsRecorded(grabdata').frames,
                     !.totalTime = TotalsRecorded(grabdata').time,
                     !.summary = (pexc' = ""),
                     !.table = IF pexc' = ""
                                 THEN SaveFrameTimestamps(grabdata')
                                 ELSE <<>>]
              /\ ppc' = IF pexc' = "" THEN "returned" ELSE "crashed"
    /\ UNCHANGED <<cam_params, camera, params, resolved, dispQueue, dispLog, window, writeQueue, stopQueue, grabResult, nGrabs,
                   frameCount, timeStamp, released, cameraOpen, enqLog,
                   cvars, reqLog, interrupts, session,
                   closeFailures>>

Producer ==
    \/ \E failure \in {""} \cup ConfigFailures : OpenCamera(failure)
    \/ \E ok \in BOOLEAN : StartGrabbing(ok)
    \/ StopRequested
    \/ GrabFrame
    \/ GrabTimeout
    \/ GrabIncomplete
    \/ \E outcome \in ExtractOutcomes, display \in DisplayOutcomes :
          ProcessFrame(outcome, display)
    \/ CloseCamera
    \/ SaveMetadata


\* --------------------------------------------------- consumer: WriteFrames
\* a negative length taken for its absolute value
video_split_length_sec_Abs ==
    IF cam_params.videoSplitLengthInSec < 0
      THEN 0 - cam_params.videoSplitLengthInSec
    ELSE cam_params.videoSplitLengthInSec

\* video_split_length_sec after the `< 0` guard
video_split_length_sec ==
    IF cam_params.videoSplitLengthInSec < 0 THEN 0
    ELSE cam_params.videoSplitLengthInSec

\* int(frame_rate * video_split_length_sec)
video_split_length_frames == cam_params.frameRate * video_split_length_sec

\* bool(video_split_length_sec)
splitting == video_split_length_sec # 0

\* the parts BuildFileName joins with '_'
BuildFileName(splittingVideos, video_number) ==
    <<cam_params.cameraName, cam_params.record_timestamp>>
      \o (IF splittingVideos THEN <<ToString(video_number)>> ELSE <<>>)
      \o <<cam_params.videoFilename>>

\* ConfigureCPUCompresssion: the three values it returns; codec is bound
\* only for 'h264' and 'h265', and the return statement reads it
ConfigureCPUCompresssion(cp) ==
    IF cp.codec \notin {"h264", "h265"} THEN [exc |-> "UnboundLocalError"]
    ELSE [exc |-> "",
          pix_fmt_out |-> IF cp.pixelFormatOutput = "rgb0" THEN "yuv420p"
                          ELSE cp.pixelFormatOutput,
          codec |-> IF cp.codec = "h264" THEN "libx264" ELSE "libx265",
          gpu_params |-> <<"-r:v", ToString(cp.frameRate),
                           "-preset", "fast",
                           "-tune", "fastdecode",
                           "-crf", cp.quality,
                           "-bufsize", "20M",
                           "-maxrate", "10M",
                           "-bf:v", "4",
                           "-vsync", "0">>]

\* ConfigureGPUCompresssion: codec and gpu_params are bound only for the
\* three makes it knows and the two codecs
ConfigureGPUCompresssion(cp) ==
    IF cp.gpuMake \notin {"nvidia", "amd", "intel"}
       \/ cp.codec \notin {"h264", "h265"}
      THEN [exc |-> "UnboundLocalError"]
    ELSE IF cp.gpuMake = "nvidia"
      THEN [exc |-> "",
            pix_fmt_out |-> cp.pixelFormatOutput,
            codec |-> IF cp.codec = "h264" THEN "h264_nvenc"
                      ELSE "hevc_nvenc",
            gpu_params |-> <<"-r:v", ToString(cp.frameRate),
                             "-preset", "fast",
                             "-qp", cp.quality,
                             "-bf:v", "0",
                             "-vsync", "0",
                             "-2pass", "0",
                             "-gpu", ToString(cp.gpuID)>>]
    ELSE IF cp.gpuMake = "amd"
      THEN [exc |-> "",
            pix_fmt_out |-> IF cp.pixelFormatOutput = "rgb0" THEN "yuv420p"
                            ELSE cp.pixelFormatOutput,
            codec |-> IF cp.codec = "h264" THEN "h264_amf" ELSE "hevc_amf",
            gpu_params |-> <<"-r:v", ToString(cp.frameRate),
                             "-usage", "lowlatency",
                             "-rc", "cqp",
                             "-qp_i", cp.quality,
                             "-qp_p", cp.quality,
                             "-qp_b", cp.quality,
                             "-bf:v", "0",
                             "-hwaccel", "auto",
                             "-hwaccel_device", ToString(cp.gpuID)>>]
    ELSE [exc |-> "",
          pix_fmt_out |-> IF cp.pixelFormatOutput = "rgb0" THEN "nv12"
                          ELSE cp.pixelFormatOutput,
          codec |-> IF cp.codec = "h264" THEN "h264_qsv" ELSE "hevc_qsv",
          gpu_params |-> <<"-r:v", ToString(cp.frameRate),
                           "-bf:v", "0">>]

\* CPU compression whatever gpuID is
GetWriterParams_AlwaysCPU(cp) == ConfigureCPUCompresssion(cp)

\* GetWriterParams: CPU compression when gpuID is -1, else the GPU's
GetWriterParams(cp) ==
    IF cp.gpuID = -1 THEN ConfigureCPUCompresssion(cp)
    ELSE ConfigureGPUCompresssion(cp)

\* PrepareNewVideo -> OpenWriter: a new ffmpeg writer on that file, of the
\* size cam_params holds at this moment
PrepareNewVideo(writer_params, splitting_videos, video_number) ==
    [file_name |-> BuildFileName(splitting_videos, video_number),
     size |-> <<cam_params.frameWidth, cam_params.frameHeight>>,
     pix_fmt_out |-> writer_params.pix_fmt_out,
     codec |-> writer_params.codec,
     gpu_params |-> writer_params.gpu_params,
     video_number |-> video_number,
     frames |-> <<>>,
     open |-> TRUE,
     closes |-> 0]

\* a close that leaves the writer open
CloseSink_LeftOpen(ss, w) == ss

\* writer.close(): flushes and closes the writer; on a generator that is
\* already closed the call does nothing
CloseSink(ss, w) ==
    IF ss[w].open THEN [ss EXCEPT ![w].open = FALSE, ![w].closes = @ + 1]
    ELSE ss

\* the statements before the loop: GetWriterParams may end them with an
\* exception; frame_count is bound only when splitting
StartWriter ==
    /\ cpc = "init"
    /\ LET writer_params == GetWriterParams(cam_params)
       IN  IF writer_params.exc # ""
             THEN /\ cexc' = writer_params.exc
                  /\ cpc' = "raised"
                  /\ UNCHANGED <<frame_count, sinks, writer>>
             ELSE /\ frame_count' = IF splitting THEN <<0>> ELSE <<>>
                  /\ sinks' = Append(sinks,
                                     PrepareNewVideo(writer_params, splitting, 0))
                  /\ writer' = Len(sinks) + 1
                  /\ cpc' = "poll"
                  /\ UNCHANGED cexc
    /\ openFailures' = 0
    /\ UNCHANGED <<cam_params, camera, params, resolved, dispQueue, dispLog, window, writeQueue, stopQueue, pvars, message,
                   popLog, reqLog, interrupts, session>>

\* OpenWriter: write_frames or the first send raises; the `except Exception`
\* logs it, sleeps 0.1 s and the `while(True)` makes the next attempt
OpenWriterFails ==
    /\ cpc \in {"init", "reopen"}
    /\ openFailures < MaxOpenFailures
    /\ openFailures' = openFailures + 1
    /\ UNCHANGED <<cam_params, camera, params, resolved, dispQueue, dispLog, window, writeQueue, stopQueue, pvars, cpc, frame_count,
                   message, writer, sinks, popLog, cexc, reqLog, interrupts,
                   session>>

\* `if writeQueue:` and the rollover test; on a rollover the current writer
\* is closed here and the next one opened by OpenNextVideo
CheckQueue ==
    /\ cpc = "poll"
    /\ writeQueue # <<>>
    /\ IF splitting
         THEN IF video_split_length_frames = 0
                THEN /\ cpc' = "raised"
                     /\ cexc' = "ZeroDivisionError"
                     /\ UNCHANGED sinks
                ELSE IF frame_count[1] % video_split_length_frames = 0
                       THEN /\ sinks' = CloseSink(sinks, writer)
                            /\ cpc' = "reopen"
                            /\ UNCHANGED cexc
                       ELSE cpc' = "pop" /\ UNCHANGED <<sinks, cexc>>
         ELSE cpc' = "pop" /\ UNCHANGED <<sinks, cexc>>
    /\ UNCHANGED <<cam_params, camera, params, resolved, dispQueue, dispLog, window, writeQueue, stopQueue, pvars, frame_count,
                   message, writer, popLog, reqLog, interrupts, session,
                   openFailures>>

\* writer = PrepareNewVideo(..., True, frame_count // video_split_length_frames)
\* with the pix_fmt_out, codec and gpu_params of the statements before the
\* loop, which the first writer was opened with
OpenNextVideo ==
    /\ cpc = "reopen"
    /\ sinks' = Append(sinks, PrepareNewVideo(sinks[1], TRUE,
                         frame_count[1] \div video_split_length_frames))
    /\ writer' = Len(sinks) + 1
    /\ cpc' = "pop"
    /\ openFailures' = 0
    /\ UNCHANGED <<cam_params, camera, params, resolved, dispQueue, dispLog, window, writeQueue, stopQueue, pvars, frame_count,
                   message, popLog, reqLog, interrupts, session,
                   cexc>>

\* message = writeQueue.popleft()
PopMessage ==
    /\ cpc = "pop"
    /\ message' = Head(writeQueue)
    /\ writeQueue' = Tail(writeQueue)
    /\ popLog' = Append(popLog, Head(writeQueue))
    /\ cpc' = IF ~Head(writeQueue).str THEN "send"
              ELSE IF Head(writeQueue) = STOP THEN "break" ELSE "poll"
    /\ UNCHANGED <<cam_params, camera, params, resolved, dispQueue, dispLog, window, stopQueue, pvars, frame_count, writer, sinks,
                   reqLog, interrupts, session,
                   cexc,
                   openFailures>>

\* writer.send(message); an exception of the writer is not caught by the
\* loop, whose handler is for KeyboardInterrupt only
SendFrame(ok) ==
    /\ cpc = "send"
    /\ IF ok
         THEN /\ sinks' = [sinks EXCEPT ![writer].frames = Append(@, message.val)]
              /\ cpc' = "count"
              /\ UNCHANGED cexc
         ELSE /\ cpc' = "raised"
              /\ cexc' = "IOError"
              /\ UNCHANGED sinks
    /\ UNCHANGED <<cam_params, camera, params, resolved, dispQueue, dispLog, window, writeQueue, stopQueue, pvars, frame_count,
                   message, writer, popLog, reqLog, interrupts, session,
                   openFailures>>

\* frame_count += 1, an UnboundLocalError when frame_count was never bound
CountFrame ==
    /\ cpc = "count"
    /\ IF frame_count = <<>>
         THEN /\ cpc' = "raised"
              /\ cexc' = "UnboundLocalError"
              /\ UNCHANGED frame_count
         ELSE /\ cpc' = "poll"
              /\ frame_count' = <<frame_count[1] + 1>>
              /\ UNCHANGED cexc
    /\ UNCHANGED <<cam_params, camera, params, resolved, dispQueue, dispLog, window, writeQueue, stopQueue, pvars, message, writer,
                   sinks, popLog, reqLog, interrupts, session,
                   openFailures>>

\* `elif message == 'STOP': break`
BreakOnStop ==
    /\ cpc = "break"
    /\ cpc' = "closing"
    /\ UNCHANGED <<cam_params, camera, params, resolved, dispQueue, dispLog, window, writeQueue, stopQueue, pvars, frame_count,
                   message, writer, sinks, popLog, reqLog, interrupts, session,
                   cexc,
                   openFailures>>

\* after the loop: time.sleep(1); writer.close()
CloseWriter ==
    /\ cpc = "closing"
    /\ sinks' = CloseSink(sinks, writer)
    /\ cpc' = "done"
    /\ UNCHANGED <<cam_params, camera, params, resolved, dispQueue, dispLog, window, writeQueue, stopQueue, pvars, frame_count,
                   message, writer, popLog, reqLog, interrupts, session,
                   cexc,
                   openFailures>>

Consumer ==
    \/ StartWriter
    \/ OpenWriterFails
    \/ CheckQueue
    \/ OpenNextVideo
    \/ PopMessage
    \/ \E ok \in BOOLEAN : SendFrame(ok)
    \/ CountFrame
    \/ BreakOnStop
    \/ CloseWriter

\* ------------------------------------------------------- KeyboardInterrupt
\* the positions inside the try block of the loop
InLoop == {"poll", "reopen", "pop", "send", "count", "break"}

\* `except KeyboardInterrupt: stopQueue.append('STOP')`, then the loop goes on
\* with its next iteration
RecordStopRequest ==
    /\ stopQueue' = DequeAppend(stopQueue, STOP, StopQueueMaxLen)
    /\ reqLog' = IF stopQueue = <<>>
                   THEN <<[pending |-> FramesOf(writeQueue),
                           enqueued |-> Len(enqLog),
                           grabs |-> nGrabs,
                           ppc |-> ppc]>>
                   ELSE reqLog
    /\ cpc' = "poll"

\* a KeyboardInterrupt raised in the consumer while it is in the loop
InterruptInLoop ==
    /\ session = "running"
    /\ interrupts < MaxInterrupts
    /\ cpc \in InLoop
    /\ interrupts' = interrupts + 1
    /\ RecordStopRequest
    /\ UNCHANGED <<cam_params, camera, params, resolved, dispQueue, dispLog, window, writeQueue, pvars, frame_count, message,
                   writer, sinks, popLog, session,
                   cexc,
                   openFailures>>

\* a KeyboardInterrupt raised inside OpenWriter during a rollover: OpenWriter
\* breaks out of its retry loop and returns its local writer, which is not
\* bound yet; the UnboundLocalError leaves WriteFrames
InterruptInOpenWriter ==
    /\ session = "running"
    /\ interrupts < MaxInterrupts
    /\ cpc = "reopen"
    /\ interrupts' = interrupts + 1
    /\ cpc' = "raised"
    /\ cexc' = "UnboundLocalError"
    /\ UNCHANGED <<cam_params, camera, params, resolved, dispQueue, dispLog, window, writeQueue, stopQueue, pvars, frame_count,
                   message, writer, sinks, popLog, reqLog, session,
                   openFailures>>

\* a KeyboardInterrupt raised outside the try block of the loop (before the
\* loop or in the closing phase) leaves WriteFrames
InterruptOutsideLoop ==
    /\ session = "running"
    /\ interrupts < MaxInterrupts
    /\ cpc \in {"init", "closing"}
    /\ interrupts' = interrupts + 1
    /\ cpc' = "raised"
    /\ cexc' = "KeyboardInterrupt"
    /\ UNCHANGED <<cam_params, camera, params, resolved, dispQueue, dispLog, window, writeQueue, stopQueue, pvars, frame_count,
                   message, writer, sinks, popLog, reqLog, session,
                   openFailures>>

KeyboardInterrupt ==
    \/ InterruptInLoop
    \/ InterruptInOpenWriter
    \/ InterruptOutsideLoop

\* ------------------------------------------------------ AcquireOneCamera
ProducerEnded == ppc \in {"returned", "crashed"}

\* an AcquireOneCamera that returns when WriteFrames returns, without join()
JoinProducer_NoJoin ==
    /\ session = "running"
    /\ cpc = "done"
    /\ session' = "returned"
    /\ UNCHANGED <<cam_params, camera, params, resolved, dispQueue, dispLog, window, writeQueue, stopQueue, pvars, cvars, reqLog,
                   interrupts>>

\* frame_grab_thread.join() after WriteFrames returned
JoinProducer ==
    /\ session = "running"
    /\ cpc = "done"
    /\ ProducerEnded
    /\ session' = "returned"
    /\ UNCHANGED <<cam_params, camera, params, resolved, dispQueue, dispLog, window, writeQueue, stopQueue, pvars, cvars, reqLog,
                   interrupts>>

\* an exception that leaves WriteFrames leaves AcquireOneCamera, and so does
\* a KeyboardInterrupt raised while it waits in join()
AcquireRaises ==
    /\ session = "running"
    /\ \/ cpc = "raised" /\ UNCHANGED interrupts
       \/ /\ cpc = "done"
          /\ interrupts < MaxInterrupts
          /\ interrupts' = interrupts + 1
    /\ session' = "raised"
    /\ UNCHANGED <<cam_params, camera, params, resolved, dispQueue, dispLog, window, writeQueue, stopQueue, pvars, cvars, reqLog>>

AcquireOneCamera ==
    \/ JoinProducer
    \/ AcquireRaises

\* ------------------------------------------------------------------- Spec
Next ==
    \/ Producer
    \/ Consumer
    \/ KeyboardInterrupt
    \/ AcquireOneCamera

\* a session on a device that ends acquisition at the first attempt
Spec == Init /\ [][Next]_vars

\* the same sessions on a device whose attempts to end acquisition may fail
CloseNext == Next \/ CloseCameraFails

CloseSpec == Init /\ [][CloseNext]_vars

\* ------------------------------------------------ preview: DisplayFrames
\* the preview taking its image from the write queue
DisplayFrames_FromWriteQueue(drawn) ==
    /\ writeQueue # <<>>
    /\ ~Head(writeQueue).str
    /\ writeQueue' = Tail(writeQueue)
    /\ window' = IF drawn THEN Head(writeQueue).val ELSE window
    /\ UNCHANGED <<cam_params, camera, params, resolved, dispQueue, dispLog,
                   stopQueue, pvars, cvars, reqLog, interrupts, session>>

\* an iteration of DisplayFrames that finds a sample: popleft, then the
\* window is redrawn unless the drawing raises, which is logged
DisplayFrames(drawn) ==
    /\ dispQueue # <<>>
    /\ dispQueue' = Tail(dispQueue)
    /\ window' = IF drawn THEN Head(dispQueue) ELSE window
    /\ UNCHANGED <<cam_params, camera, params, resolved, dispLog, writeQueue,
                   stopQueue, pvars, cvars, reqLog, interrupts, session>>

\* sessions with the preview on: <<frameRate, chunkLengthInSec,
\* displayFrameRate>> for a frame ratio of 1, of 2 and of float('inf')
DisplayCases == {<<1, 2, 10>>, <<2, 1, 1>>, <<1, 2, 0>>}

DisplayInit ==
    /\ \E c \in DisplayCases :
          cam_params = [DefaultParams EXCEPT !.videoSplitLengthInSec = 2,
                                             !.frameRate = c[1],
                                             !.chunkLengthInSec = c[2],
                                             !.displayVideos = TRUE,
                                             !.displayFrameRate = c[3]]
    /\ camera = DeviceWith(Nodes)
    /\ SessionConfigResolved
    /\ ThreadsStarted

\* KeyboardInterrupt is raised in the main thread, which runs WriteFrames;
\* these are the sessions in which none is delivered, so that the stop
\* queue stays empty and GrabFrames never takes its stop branch
DisplayNext ==
    \/ \E failure \in {""} \cup ConfigFailures : OpenCamera(failure)
    \/ \E ok \in BOOLEAN : StartGrabbing(ok)
    \/ GrabFrame
    \/ GrabTimeout
    \/ GrabIncomplete
    \/ \E outcome \in ExtractOutcomes, display \in DisplayOutcomes :
          ProcessFrame(outcome, display)
    \/ CloseCamera
    \/ SaveMetadata
    \/ Consumer
    \/ AcquireOneCamera
    \/ \E drawn \in BOOLEAN : DisplayFrames(drawn)

DisplaySpec == DisplayInit /\ [][DisplayNext]_vars

\* sessions that differ in what is configured and in what the device lets
\* the configuration write: <<frameWidth, frameHeight, triggerType, nodes
\* that are not writable>>
ConfigCases ==
    {<<16, 32, "hardware", {}>>,
     <<17, 30, "software", {}>>,
     <<16, 16, "none", {}>>,
     <<17, 16, "hardware", {"Width", "TriggerSource"}>>,
     <<16, 16, "hardware", {"AcquisitionMode"}>>}

ConfigInit ==
    /\ \E c \in ConfigCases :
          /\ cam_params = [DefaultParams EXCEPT !.chunkLengthInSec = 1,
                                                !.frameWidth = c[1],
                                                !.frameHeight = c[2],
                                                !.triggerType = c[3]]
          /\ camera = DeviceWith(Nodes \ c[4])
    /\ SessionConfigResolved
    /\ ThreadsStarted

ConfigSpec == ConfigInit /\ [][Next]_vars

\* the configuration of the image settings alone, for every size and offset
\* up to the bounds and the sizes 1150 and 1020, on devices that let all
\* nodes, all but OffsetX, or all but Height be written
Sizes == (0..MaxSize) \cup {1020, 1150}
Offsets == 0..MaxOffset

RoundInit ==
    /\ \E w \in Sizes, h \in Sizes, x \in Offsets, y \in Offsets :
          cam_params = [DefaultParams EXCEPT !.frameWidth = w,
                                             !.frameHeight = h,
                                             !.offsetX = x,
                                             !.offsetY = y]
    /\ \E u \in {{}, {"OffsetX"}, {"Height"}} :
          camera = DeviceWith(Nodes \ u)
    /\ SessionConfigResolved
    /\ ThreadsStarted

RoundNext == \E failure \in {""} \cup ConfigFailures : OpenCamera(failure)

RoundSpec == RoundInit /\ [][RoundNext]_vars

\* ------------------------------------------- resolving a camera's config
\* a value of the parameter dictionary: a list, or anything else
List(seq) == [list |-> TRUE, val |-> seq]
Scalar(v) == [list |-> FALSE, val |-> v]

CamNames == <<"cam0", "cam1", "cam2", "cam3">>

\* systems[cam_make]["serials"]: one serial number for each camera found
Serials(numCams) == [i \in 1..numCams |-> 1000 + i]

\* UnpackParamLists: a list, other than ffmpegPath, as long as numCams is
\* replaced by its element n_cam; cam_params is the dictionary params itself
UnpackParamLists(cp, n_cam) ==
    [key \in DOMAIN cp |->
        IF cp[key].list /\ key # "ffmpegPath"
           /\ Len(cp[key].val) = cp["numCams"].val
          THEN Scalar(cp[key].val[n_cam + 1])
        ELSE cp[key]]

\* FillWithDefaultParams: a key that is absent gets its default
FillWithDefaultParams(cp) ==
    cp @@ [key \in {"frameRate"} |-> Scalar(100)]

\* CreateCamParams up to the lookup of the device: cam_params = params is the
\* same dictionary, so every assignment is made to the global one
CamParamsUnpacked(n_cam) ==
    FillWithDefaultParams(
        UnpackParamLists([key \in {"n_cam"} |-> Scalar(n_cam)]
                           @@ [key \in {"baseFolder"} |-> Scalar("cwd")]
                           @@ params,
                         n_cam))

\* CreateCamParams(params, systems, n_cam): the dictionary when the call is
\* over and what it returns, None after an IndexError of the device lookup.
\* No parameter of the configs explored is a dictionary, so
\* UnpackCameraSpecificParams changes nothing
CreateCamParams(n_cam) ==
    /\ Len(resolved) < MaxResolves
    /\ LET cp == CamParamsUnpacked(n_cam)
           serials == Serials(cp["numCams"].val)
           cam_selection == cp["cameraSelection"].val
           found == cam_selection + 1 \in DOMAIN serials
           after == IF found
                      THEN [key \in {"cameraSerialNo"} |->
                                Scalar(serials[cam_selection + 1])] @@ cp
                    ELSE cp
       IN  /\ params' = after
           /\ resolved' = Append(resolved,
                                 [n_cam |-> n_cam,
                                  before |-> params,
                                  returned |-> IF found THEN <<after>>
                                               ELSE <<>>])
    /\ UNCHANGED <<cam_params, camera, dispQueue, dispLog, window, writeQueue,
                   stopQueue, pvars, cvars, reqLog, interrupts, session>>

\* the parameters as CombineConfigAndClargs leaves them, for recordings of
\* 1..MaxCams cameras: cameraName and cameraSelection given as one value or
\* as a list with an entry for each camera, the one selection being that of
\* the first camera or of a camera that was not found, frameRate absent or
\* a list that is too long, ffmpegPath a list
ParamsInit ==
    /\ \E numCams \in 1..MaxCams :
       \E names \in BOOLEAN, selections \in 0..2, rates \in BOOLEAN :
          params = [key \in {"numCams"} |-> Scalar(numCams)]
                     @@ [key \in {"cameraName"} |->
                             IF names
                               THEN List([i \in 1..numCams |-> CamNames[i]])
                             ELSE Scalar("cam")]
                     @@ [key \in {"cameraSelection"} |->
                             CASE selections = 0 -> Scalar(0)
                               [] selections = 1 ->
                                    List([i \in 1..numCams |-> i - 1])
                               [] selections = 2 -> Scalar(numCams)]
                     @@ [key \in {"ffmpegPath"} |->
                             List([i \in 1..MaxCams + 1 |-> "ffmpeg"])]
                     @@ [key \in IF rates THEN {"frameRate"} ELSE {} |->
                             List([i \in 1..numCams + 1 |-> 100 * i])]
    /\ resolved = <<>>
    /\ cam_params = DefaultParams
    /\ camera = DeviceWith(Nodes)
    /\ ThreadsStarted

\* AcquireOneCamera(n_cam) called for any camera of the recording, in any
\* order, in the same worker process
ParamsNext == \E n_cam \in 0..(params["numCams"].val - 1) : CreateCamParams(n_cam)

ParamsSpec == ParamsInit /\ [][ParamsNext]_vars

\* the opening statements of WriteFrames alone, for every combination of
\* these encoder settings
GpuIDs == {-1, 0, 1}
GpuMakes == {"nvidia", "amd", "intel", "apple"}
Codecs == {"h264", "h265", "mpeg4"}
PixelFormats == {"rgb0", "yuv420p", "nv12"}

WriterInit ==
    /\ \E g \in GpuIDs, m \in GpuMakes, c \in Codecs, f \in PixelFormats :
          cam_params = [DefaultParams EXCEPT !.gpuID = g,
                                             !.gpuMake = m,
                                             !.codec = c,
                                             !.pixelFormatOutput = f]
    /\ camera = DeviceWith(Nodes)
    /\ SessionConfigResolved
    /\ ThreadsStarted

WriterNext == StartWriter

WriterSpec == WriterInit /\ [][WriterNext]_vars


\* ------------------------------------------------- what the claims speak of
Range(q) == {q[i] : i \in 1..Len(q)}

IsPrefix(p, q) == Len(p) <= Len(q) /\ SubSeq(q, 1, Len(p)) = p

\* the frames the writers received, in the order they were sent
RECURSIVE FramesSent(_)
FramesSent(ss) ==
    IF ss = <<>> THEN <<>>
    ELSE Head(ss).frames \o FramesSent(Tail(ss))

Forwarded == FramesSent(sinks)

\* every entry the producer appended to writeQueue, in order
Appended == popLog \o writeQueue

StopPushed == STOP \in Range(Appended)

StopRead == STOP \in Range(popLog)

\* WriteFrames is over, by returning or by an exception
WriteFramesEnded == cpc \in {"done", "raised"}

\* no KeyboardInterrupt was delivered and the writer accepted every frame
Undisturbed == interrupts = 0 /\ cexc # "IOError"

\* ---------------------------------------------------------------- claims

\* C1: the consumer forwards to the Frame Sink exactly the frames the
\* producer enqueued before Stop, in enqueue order and each exactly once.
\* Stated for the sessions in which no KeyboardInterrupt is delivered and the
\* writer accepts every frame: what was forwarded is always a prefix of what
\* was enqueued, and it is all of it once Stop was pushed and WriteFrames is
\* over.
C1_ForwardsExactlyTheEnqueuedFrames ==
    Undisturbed =>
        /\ IsPrefix(Forwarded, enqLog)
        /\ (StopPushed /\ WriteFramesEnded) => Forwarded = enqLog

\* C2: the frames that are unconsumed in writeQueue when the stop request is
\* recorded are all forwarded before the consumer reads Stop and closes the
\* sink.  Stated for the sessions with that one KeyboardInterrupt and a writer
\* that accepts every frame: once WriteFrames is over, every frame that was
\* pending at the request has been forwarded.
C2_GracefulStopLosesNoPendingFrame ==
    (interrupts = 1 /\ reqLog # <<>> /\ cexc # "IOError" /\ WriteFramesEnded)
        => Range(reqLog[1].pending) \subseteq Range(Forwarded)

\* C3: the producer enqueues at most one Stop, Stop is the last entry it
\* enqueues and no grab follows it, and the consumer leaves its loop on the
\* first Stop it reads without processing any later entry.
C3_OneStopLastAndTerminating ==
    /\ Cardinality({i \in 1..Len(Appended) : Appended[i] = STOP}) <= 1
    /\ \A i \in 1..Len(Appended) : Appended[i] = STOP => i = Len(Appended)
    /\ \A i \in 1..Len(pLog) : pLog[i] = "stop" =>
           \A j \in i..Len(pLog) : pLog[j] # "grab"
    /\ StopRead => cpc \in {"break", "closing", "done", "raised"}

\* C4: once acquisition has ended, for whatever reason, the consumer reads
\* Stop, closes the sink and returns: it never waits for a Stop that will not
\* come.  The state below is one the consumer cannot leave: GrabFrames is
\* over, so nothing will be appended to writeQueue, and the consumer polls
\* the empty queue without having read Stop.
C4_NeverWaitsForAStopThatWillNotCome ==
    ~(ProducerEnded /\ cpc = "poll" /\ writeQueue = <<>> /\ ~StopRead
        /\ Undisturbed)

\* C5: AcquireOneCamera returns only after both halves have finished: the
\* consumer has read Stop and closed its last writer, and the producer thread
\* has ended.
C5_ReturnsAfterBothHalvesFinished ==
    session = "returned" =>
        /\ cpc = "done"
        /\ StopRead
        /\ \A i \in 1..Len(sinks) : ~sinks[i].open
        /\ ProducerEnded

C5_Witness ==
    /\ session = "returned"
    /\ Len(Forwarded) >= 2
    /\ interrupts >= 1

\* what the producer did from its first "timeout" event on
AfterTimeout ==
    LET i == CHOOSE k \in 1..Len(pLog) : pLog[k] = "timeout"
    IN  SubSeq(pLog, i, Len(pLog))

TimeoutBeforeAnyFrame == pLog # <<>> /\ pLog[1] = "timeout"

C8_IncompleteGrabContinues ==
    [][(pLog' # pLog /\ pLog'[Len(pLog) + 1] = "incomplete")
         => (writeQueue' = writeQueue /\ cameraOpen' /\ ppc' = "loop")]_vars

\* C9: once the stop request is recorded while the producer is streaming, the
\* producer grabs no further image, enqueues at most one more frame, that of
\* the iteration in progress, and then enqueues Stop: it never pushes Stop
\* for another reason and never ends without having pushed it.
C9_StopRequestSeenAtNextIteration ==
    (reqLog # <<>> /\ reqLog[1].ppc \in {"loop", "extract"}) =>
        /\ nGrabs = reqLog[1].grabs
        /\ Len(enqLog) <= reqLog[1].enqueued + 1
        /\ "stop" \in Range(pLog) => "request" \in Range(pLog)
        /\ ProducerEnded => "request" \in Range(pLog)

\* ceil(n / b)
CeilDiv(n, b) == (n + b - 1) \div b

\* the segment indices for which a video file was opened
SegmentIndices == {sinks[i].video_number : i \in 1..Len(sinks)}

\* the frames in the video file of segment k: those of the last writer opened
\* on it, an earlier one having been overwritten
SegmentFrames(k) ==
    LET last == CHOOSE i \in 1..Len(sinks) :
                    /\ sinks[i].video_number = k
                    /\ \A j \in i + 1..Len(sinks) : sinks[j].video_number # k
    IN  sinks[last].frames

\* C10: with splitting at B >= 1 frames and N >= 1 frames forwarded before
\* Stop, the session produces exactly the segments 0 .. ceil(N/B)-1, each but
\* the last with B frames and the last with the rest.  Stated for the
\* sessions in which no KeyboardInterrupt is delivered.
C10_SegmentsAreCeilNOverB ==
    LET B == video_split_length_frames
        N == Len(Forwarded)
        S == CeilDiv(N, B)
    IN  (splitting /\ B >= 1 /\ N >= 1 /\ cpc = "done" /\ interrupts = 0) =>
            /\ SegmentIndices = 0..S - 1
            /\ \A k \in 0..S - 2 : Len(SegmentFrames(k)) = B
            /\ Len(SegmentFrames(S - 1)) = N - B * (S - 1)

\* the number of frames forwarded to the writers opened before the i-th one
FramesBefore(i) == Len(FramesSent(SubSeq(sinks, 1, i - 1)))

\* C11: with splitting at B frames, the k-th frame forwarded (from 0) is in
\* the writer opened for segment k div B, no writer receives more than B
\* frames, and no frame is written twice.
C11_FrameKGoesToSegmentKOverB ==
    LET B == video_split_length_frames
    IN  (splitting /\ B >= 1) =>
            /\ \A i \in 1..Len(sinks) :
                   /\ Len(sinks[i].frames) <= B
                   /\ \A j \in 1..Len(sinks[i].frames) :
                          sinks[i].video_number = (FramesBefore(i) + j - 1) \div B
            /\ \A m, n \in 1..Len(Forwarded) :
                   Forwarded[m] = Forwarded[n] => m = n

\* C12: the consumer opens a new writer in a rollover only when the entry at
\* the head of the queue is a frame, and a finished session has no segment
\* after segment 0 without a frame.  Stated for the sessions in which no
\* KeyboardInterrupt is delivered.
C12_RolloverOnlyForAFrame ==
    interrupts = 0 =>
        /\ cpc = "reopen" => Head(writeQueue) # STOP
        /\ cpc = "done" =>
               \A k \in SegmentIndices : k >= 1 => SegmentFrames(k) # <<>>

\* C13: with splitting disabled the session has one writer, its file name
\* has no segment index, and every frame the producer enqueued before Stop is
\* forwarded to it, whatever their number.  Stated for the sessions in which
\* no KeyboardInterrupt is delivered and the writer accepts every frame.
C13_OneSinkWhenNotSplitting ==
    (~splitting /\ Undisturbed /\ cpc # "init") =>
        /\ Len(sinks) = 1
        /\ sinks[1].file_name = <<cam_params.cameraName,
                                  cam_params.record_timestamp,
                                  cam_params.videoFilename>>
        /\ IsPrefix(sinks[1].frames, enqLog)
        /\ (StopPushed /\ WriteFramesEnded) => sinks[1].frames = enqLog

\* the number of grabs that returned an image to the loop
Grabbed == Cardinality({i \in 1..Len(pLog) : pLog[i] = "grab"})

\* C14: every image a grab returned is released exactly once: the released
\* images are grabbed ones, none is released twice, and whenever the producer
\* is not inside an iteration every grabbed image has been released.
C14_EveryGrabbedFrameReleasedOnce ==
    /\ Range(released) \subseteq 1..Grabbed
    /\ \A m, n \in 1..Len(released) : released[m] = released[n] => m = n
    /\ ppc # "extract" => Len(released) = Grabbed

\* C15: at every point the statistics hold one sequence number and one
\* timestamp for each frame the producer has enqueued, in the same order.
C15_StatisticsMatchEnqueuedFrames ==
    /\ Len(grabdata.frameNumber) = Len(enqLog)
    /\ Len(grabdata.timeStamp) = Len(enqLog)
    /\ grabdata.frameNumber = enqLog

\* SaveMetadata has processed a non-empty list of timestamps
MetadataProcessed == metadata.calls >= 1 /\ ~metadata.noFrames

\* C16: for every non-empty list ts of captured timestamps, SaveMetadata
\* leaves zeroed[i] = ts[i] - ts[1] in the same order, with zeroed[1] = 0,
\* keeps the raw values in cameraTime, and SaveRecordingMetadata records the
\* elapsed time ts[last] - ts[1].
C16_ZeroedTimestampsAndElapsedTime ==
    MetadataProcessed =>
        LET raw == [i \in 1..Len(grabdata.frameNumber) |->
                        TimeStampOf(grabdata.frameNumber[i])]
            zeroed == grabdata.timeStamp
        IN  /\ raw # <<>>
            /\ grabdata.cameraTime = raw
            /\ Len(zeroed) = Len(raw)
            /\ \A i \in 1..Len(raw) : zeroed[i] = raw[i] - raw[1]
            /\ zeroed[1] = 0
            /\ metadata.totalTime = <<raw[Len(raw)] - raw[1]>>

\* C17: when a session ended by a stop request or a grab timeout, SaveMetadata
\* has been given statistics with at least one frame and the producer has
\* ended, the summary record is persisted and the
\* per-frame table holds one row per captured frame, in capture order.
C17_MetadataPersistedWhenFramesCaptured ==
    (MetadataProcessed /\ ProducerEnded /\ "incomplete" \notin Range(pLog)) =>
        /\ metadata.summary
        /\ Len(metadata.table) = Len(metadata.frames)
        /\ \A i \in 1..Len(metadata.table) :
               metadata.table[i][1] = metadata.frames[i]

\* C18: when SaveMetadata is called with statistics that hold no frame it
\* reports the no-frames condition, writes neither the summary nor the table,
\* leaves the statistics as they are and returns without an exception.
C18_NoFramesNoMetadataFiles ==
    (metadata.calls >= 1 /\ metadata.frames = <<>>) =>
        /\ metadata.noFrames
        /\ ~metadata.summary
        /\ metadata.table = <<>>
        /\ metadata.totalFrames = <<>> /\ metadata.totalTime = <<>>
        /\ grabdata.timeStamp = <<>> /\ grabdata.cameraTime = <<>>
        /\ ppc = "returned"
        /\ pexc = ""

C18_Witness ==
    /\ metadata.calls = 1
    /\ metadata.noFrames
    /\ "request" \in Range(pLog)
    /\ session = "returned"

\* C19: a failure of writer.send drops that frame only: it never ends
\* WriteFrames, whose loop ends only by reading Stop.  Stated for the
\* sessions in which no KeyboardInterrupt is delivered.
C19_SendFailureDropsOneFrame ==
    (interrupts = 0 /\ splitting) =>
        /\ cexc # "IOError"
        /\ WriteFramesEnded => (StopRead /\ cpc = "done")

\* what WriteFrames and OpenWriter themselves hold
WriterState == <<cpc, frame_count, message, writer, sinks, cexc>>

\* C20: the retrying of a failed open is bounded: every failed attempt uses
\* up one of finitely many attempts or ends the writer with an error, so it
\* never leaves the writer in the state it had before the attempt.
C20_OpenRetriesAreBounded ==
    [][openFailures' > openFailures => WriterState' # WriterState]_vars

\* C21: a KeyboardInterrupt only records a stop request: WriteFrames never
\* ends because of one, no writer is closed twice, and when WriteFrames has
\* ended the current writer is closed.  Stated for the sessions with
\* splitting enabled in which the writer accepts every frame.
C21_InterruptNeverLeavesSinkUnclosed ==
    (splitting /\ cexc # "IOError" /\ sinks # <<>>) =>
        /\ \A i \in 1..Len(sinks) : sinks[i].closes <= 1
        /\ WriteFramesEnded => ~sinks[writer].open

\* C29: the throughput report is advisory: whatever the frame count, the
\* chunk length and the timestamps are, the step that handles a grabbed
\* image ends with the frame released and the producer at the top of its
\* loop for the next iteration.
C29_ReportNeverStopsTheLoop ==
    [][(ppc = "extract" /\ ppc' # "extract") =>
          (ppc' = "loop" /\ released' = Append(released, grabResult))]_vars

\* C22: when the configuration of the device fails, the producer never
\* grabs a frame and never puts anything into the write queue.
C22_ConfigFailureGrabsNothing ==
    "noconfig" \in Range(pLog) =>
        /\ ppc = "crashed"
        /\ nGrabs = 0
        /\ enqLog = <<>>
        /\ writeQueue = <<>>

\* a configuration that failed while the consumer waits for frames
C22_Witness ==
    /\ "noconfig" \in Range(pLog)
    /\ pexc = "Exception"
    /\ cpc = "poll"

\* C23: when the configuration of the device fails, no writer is ever
\* opened, in whichever order the producer's configuration and the
\* consumer's start happen.
C23_ConfigFailureLeavesNoArtifact ==
    "noconfig" \in Range(pLog) => sinks = <<>>

\* C24: when StartGrabbing returns False, the loop performs no grab and
\* enqueues no frame.
C24_NoGrabWhenAcquisitionFailsToStart ==
    "nostart" \in Range(pLog) =>
        /\ ppc = "returned"
        /\ nGrabs = 0
        /\ enqLog = <<>>
        /\ writeQueue = <<>>

\* StartGrabbing returned False while the consumer waits for frames
C24_Witness ==
    /\ "nostart" \in Range(pLog)
    /\ ppc = "returned"
    /\ cpc = "poll"

\* C25: a trigger configuration that failed prevents streaming: no image is
\* ever grabbed.
C25_FailedTriggerPreventsStreaming ==
    cam_params.trigConfig = <<FALSE>> => nGrabs = 0

\* C30: every writer the consumer opens has the width and the height the
\* device was configured to deliver.
C30_SinkSizeIsDeviceSize ==
    (camera.Width # <<>> /\ camera.Height # <<>>) =>
        \A i \in 1..Len(sinks) :
            sinks[i].size = <<camera.Width[1], camera.Height[1]>>

\* the least multiple of m that is not smaller than v
LeastMultiple(v, m) == CHOOSE k \in v..(v + m - 1) : k % m = 0

\* C26: when the image settings are configured, the width and the height
\* the device is asked to set are the configured ones rounded up to the
\* least multiple of 16 that is not smaller, the offsets it is asked to set
\* are the configured ones rounded up to the least multiple of 4, and a
\* value that is aligned already is passed on unchanged.
C26_SizesAndOffsetsRoundedUp ==
    [][(ppc = "open" /\ cam_params'.settingsConfig = <<TRUE>>) =>
          /\ camera'.Width = <<LeastMultiple(cam_params.frameWidth, 16)>>
          /\ "Height" \in camera.writable =>
                camera'.Height = <<LeastMultiple(cam_params.frameHeight, 16)>>
          /\ "OffsetX" \in camera.writable =>
                camera'.OffsetX = <<LeastMultiple(cam_params.offsetX, 4)>>
          /\ {"Height", "OffsetY"} \subseteq camera.writable =>
                camera'.OffsetY = <<LeastMultiple(cam_params.offsetY, 4)>>
          /\ cam_params.frameWidth % 16 = 0 =>
                camera'.Width = <<cam_params.frameWidth>>
          /\ cam_params.offsetX % 4 = 0 =>
                camera'.OffsetX \in {<<>>, <<cam_params.offsetX>>}
          /\ camera'.Height \in
                {<<>>, <<LeastMultiple(cam_params.frameHeight, 16)>>}
          /\ camera'.OffsetY \in
                {<<>>, <<LeastMultiple(cam_params.offsetY, 4)>>}]_vars

\* the device asked for 1152 x 1024 at offset (8, 4), which is what the
\* configured 1150 x 1020 at (5, 3) rounds up to
C26_Witness ==
    /\ cam_params.offsetX = 5
    /\ cam_params.offsetY = 3
    /\ camera.Width = <<1152>>
    /\ camera.Height = <<1024>>
    /\ camera.OffsetX = <<8>>
    /\ camera.OffsetY = <<4>>

\* the backend the config names: the CPU, or the make of the GPU
Backend(cp) == IF cp.gpuID = -1 THEN "cpu" ELSE cp.gpuMake

\* the encoder of each backend for the codecs h264 and h265
EncoderOf(backend, codec) ==
    CASE backend = "cpu" ->
           IF codec = "h264" THEN "libx264" ELSE "libx265"
      [] backend = "nvidia" ->
           IF codec = "h264" THEN "h264_nvenc" ELSE "hevc_nvenc"
      [] backend = "amd" ->
           IF codec = "h264" THEN "h264_amf" ELSE "hevc_amf"
      [] backend = "intel" ->
           IF codec = "h264" THEN "h264_qsv" ELSE "hevc_qsv"

\* what the output pixel format rgb0 becomes on each backend
Rgb0On(backend) ==
    CASE backend \in {"cpu", "amd"} -> "yuv420p"
      [] backend = "intel" -> "nv12"
      [] backend = "nvidia" -> "rgb0"

\* C27: selecting the encoder backend leaves the config as it was; the
\* writer opened with the selection has the encoder of the CPU exactly when
\* gpuID is -1 and else that of the GPU make, for the codecs h264 and h265;
\* the output pixel format rgb0 is replaced as the backend requires; and a
\* second call with the same config returns what the first one returned.
C27_BackendSelection ==
    [][(cpc = "init" /\ cpc' = "poll") =>
          LET backend == Backend(cam_params)
              again == GetWriterParams(cam_params')
          IN  /\ cam_params' = cam_params
              /\ backend \in {"cpu", "nvidia", "amd", "intel"}
              /\ cam_params.codec \in {"h264", "h265"}
              /\ sinks'[1].codec = EncoderOf(backend, cam_params.codec)
              /\ cam_params.pixelFormatOutput = "rgb0" =>
                    sinks'[1].pix_fmt_out = Rgb0On(backend)
              /\ again.exc = ""
              /\ again.pix_fmt_out = sinks'[1].pix_fmt_out
              /\ again.codec = sinks'[1].codec
              /\ again.gpu_params = sinks'[1].gpu_params]_vars

\* a writer opened for an intel GPU with the codec h265 and rgb0 output
C27_Witness ==
    /\ cam_params.gpuID = 1
    /\ cam_params.gpuMake = "intel"
    /\ cam_params.codec = "h265"
    /\ cam_params.pixelFormatOutput = "rgb0"
    /\ sinks # <<>>
    /\ sinks[1].codec = "hevc_qsv"
    /\ sinks[1].pix_fmt_out = "nv12"

\* what GrabFrames and the device hold while CloseCamera runs
CloserState == <<ppc, cameraOpen, pLog, pexc, metadata>>

\* C28: CloseCamera returns after finitely many steps whatever the device
\* raises: every failed attempt to close leaves the producer in a state it
\* was not in before, so the attempts cannot repeat for ever.
C28_CloseCameraAlwaysReturns ==
    [][closeFailures' > closeFailures => CloserState' # CloserState]_vars

\* the last n entries of a sequence
LastEntries(q, n) == SubSeq(q, Len(q) - n + 1, Len(q))

C33_FileNamesAndRolloverIndex ==
    LET B == video_split_length_frames
    IN  /\ \A i \in 1..Len(sinks) :
               sinks[i].file_name =
                   <<cam_params.cameraName, cam_params.record_timestamp>>
                     \o (IF splitting THEN <<ToString(sinks[i].video_number)>>
                         ELSE <<>>)
                     \o <<cam_params.videoFilename>>
        /\ \A i, j \in 1..Len(sinks) :
               sinks[i].video_number # sinks[j].video_number =>
                   sinks[i].file_name # sinks[j].file_name
        /\ (splitting /\ B >= 1) =>
               \A i \in 2..Len(sinks) :
                   sinks[i].video_number = FramesBefore(i) \div B

\* the writers that are open
OpenSinks == {i \in 1..Len(sinks) : sinks[i].open}

\* C34: at most one writer is open at any time, and when WriteFrames has
\* returned every writer opened in the session has been closed exactly
\* once.
C34_OneOpenSinkAndAllClosedAtReturn ==
    /\ Cardinality(OpenSinks) <= 1
    /\ cpc = "done" =>
           \A i \in 1..Len(sinks) : ~sinks[i].open /\ sinks[i].closes = 1

\* WriteFrames returned after a rollover: two writers, both closed
C34_Witness ==
    /\ cpc = "done"
    /\ Len(sinks) >= 2
    /\ Len(Forwarded) >= 2
    /\ interrupts >= 1

\* C35: no file name is opened by two writers of a session: each segment
\* index, index 0 included, has exactly one writer.  Stated for the sessions
\* in which no KeyboardInterrupt is delivered.
C35_NoFileOpenedTwice ==
    interrupts = 0 =>
        \A i, j \in 1..Len(sinks) :
            i # j => /\ sinks[i].file_name # sinks[j].file_name
                     /\ sinks[i].video_number # sinks[j].video_number

\* C36: the stop queue never holds more than one entry, however many
\* interrupts are delivered, and no step empties it once it holds one.
C36_StopRequestBoundedAndSticky ==
    [][/\ Len(stopQueue') <= StopQueueMaxLen
       /\ stopQueue # <<>> => stopQueue' # <<>>]_vars

\* a second interrupt delivered to a consumer that had recorded the first
C36_Witness ==
    /\ interrupts >= 2
    /\ stopQueue = <<STOP>>
    /\ reqLog # <<>>

\* C37: the recorded frame numbers and the recorded timestamps are lists of
\* the same length, which is the producer's frameCount, and while the loop
\* runs the i-th timestamp is the timestamp of the frame with the i-th
\* frame number.
C37_StatisticsListsInStep ==
    /\ Len(grabdata.frameNumber) = frameCount
    /\ Len(grabdata.timeStamp) = frameCount
    /\ metadata.calls = 0 =>
           \A i \in 1..Len(grabdata.frameNumber) :
               grabdata.timeStamp[i] = TimeStampOf(grabdata.frameNumber[i])

\* two frames recorded, after an image whose chunk data could not be read
C37_Witness ==
    /\ frameCount = 2
    /\ Len(enqLog) = 3
    /\ metadata.calls = 0

\* C38: with a negative videoSplitLengthInSec the consumer works with the
\* split length 0: splitting is off, it opens one writer whose file name has
\* no segment index, and it never performs a rollover.
C38_NegativeSplitLengthIsNoSplitting ==
    cam_params.videoSplitLengthInSec < 0 =>
        /\ video_split_length_sec = 0
        /\ ~splitting
        /\ frame_count = <<>>
        /\ cpc # "reopen"
        /\ Len(sinks) <= 1
        /\ \A i \in 1..Len(sinks) :
               /\ sinks[i].file_name = <<cam_params.cameraName,
                                         cam_params.record_timestamp,
                                         cam_params.videoFilename>>
               /\ sinks[i].closes <= 1

\* a frame written to the one writer of a session with a negative length
C38_Witness ==
    /\ cam_params.videoSplitLengthInSec < 0
    /\ Len(sinks) = 1
    /\ sinks[1].frames # <<>>

\* the parameters of the process before the first config was resolved
OriginalParams == resolved[1].before

\* C39: whichever configs were resolved before in the process, the config
\* returned for camera n holds, for every parameter that was given as a
\* list with one entry for each camera, the entry of camera n.
C39_EachCameraGetsItsOwnEntries ==
    \A i \in 1..Len(resolved) :
        resolved[i].returned # <<>> =>
            \A key \in DOMAIN OriginalParams :
                (/\ OriginalParams[key].list
                 /\ Len(OriginalParams[key].val) =
                        OriginalParams["numCams"].val) =>
                    /\ ~resolved[i].returned[1][key].list
                    /\ resolved[i].returned[1][key].val =
                           OriginalParams[key].val[resolved[i].n_cam + 1]

\* everything the producer, the consumer and the session hold
Pipeline == <<writeQueue, stopQueue, pvars, cvars, reqLog, session>>

\* C32: the display queue never holds more than 2 samples, and a sample
\* appended to a full one pushes out the oldest; a step of the preview task
\* changes nothing of the pipeline, so it neither removes, reorders nor adds
\* an entry of the write queue; the producer adds nothing but the frame to
\* the write queue; and whatever becomes of the preview sample, the
\* iteration ends as the report decides: unless the report raises, the
\* frame is released and the loop goes on.
C32_PreviewLeavesPipelineAlone ==
    [][/\ Len(dispQueue') <= 2
       /\ (dispQueue' # dispQueue /\ ppc' = ppc) =>
             /\ dispQueue' = Tail(dispQueue)
             /\ Pipeline' = Pipeline
       /\ window' # window => Pipeline' = Pipeline
       /\ (ppc = "extract" /\ ppc' # ppc) =>
             /\ dispQueue' \in
                   {dispQueue,
                    IF Len(dispQueue) < 2 THEN Append(dispQueue, grabResult)
                    ELSE <<dispQueue[2], grabResult>>}
             /\ writeQueue' \in {writeQueue,
                                 Append(writeQueue, Frame(grabResult))}
             /\ pexc' = ReportException(frameCount', timeStamp', grabdata')
             /\ pexc' = "" =>
                   /\ ppc' = "loop"
                   /\ released' = Append(released, grabResult)]_vars

\* three frames were grabbed, enqueued and released with every frame due
\* for the preview: the sampling of the second failed, the first sample is
\* drawn and the third waits in the display queue
C32_Witness ==
    /\ cam_params.displayVideos
    /\ frameRatio = <<1>>
    /\ grabdata.frameNumber = <<1, 2, 3>>
    /\ enqLog = <<1, 2, 3>>
    /\ released = <<1, 2, 3>>
    /\ dispLog = <<1, 3>>
    /\ dispQueue = <<3>>
    /\ window = 1
    /\ ppc = "loop"

=============================================================================
